---- MODULE Spec2Model ----
(***************************************************************************)
(* Device-control core of linear_stage_control: the LinearStageControl     *)
(* object of ls_control/LinearStageControl.py (scoped serial connection,   *)
(* query/command protocol, single-flight guard).                           *)
(*                                                                         *)
(* Text is modelled as a sequence of one-character strings.  The serial    *)
(* library (pyserial) and the controller are the environment: the outcome  *)
(* of open() and the bytes a read returns are inputs drawn with \E.        *)
(***************************************************************************)
EXTENDS Integers, Sequences, FiniteSets, TLC

(* ------------------------------ bounds --------------------------------- *)

\* deepest nesting of `with` blocks one caller opens
MaxBlocks == 2
\* how far below zero the acquisition count is followed
MaxLeak == 1
\* longest reply body (characters before the terminator) the controller sends
MaxReplyLen == 2
\* status polls one wait_movement makes before the movement has to end
MaxPolls == 2
\* bits of the significand the floating-point model keeps: every inexact
\* operation is off by at most one part in 2^MantissaBits (a Python float
\* keeps 53 bits, so this covers it, second-order terms included)
MantissaBits == 24
\* distance between the step counts the conversions are tried on
ConvStride == 2500

(* ------------------------------- text ---------------------------------- *)

CR == "\r"

\* characters a reply body is made of
ReplyChars == {"0", "1", "5", "?", " "}

\* what str.strip() removes
IsSpace(c) == c \in {" ", "\r", "\n", "\t"}

RECURSIVE LStrip(_)
LStrip(s) == IF s # <<>> /\ IsSpace(Head(s)) THEN LStrip(Tail(s)) ELSE s

RECURSIVE RStrip(_)
RStrip(s) ==
    IF s # <<>> /\ IsSpace(s[Len(s)]) THEN RStrip(SubSeq(s, 1, Len(s) - 1)) ELSE s

\* variant of Strip that leaves leading whitespace in place
StripRightOnly(s) == RStrip(s)

\* str.strip()
Strip(s) == LStrip(RStrip(s))

\* s[-1] of a non-empty text
LastChar(s) == s[Len(s)]

RECURSIVE TextsUpTo(_)
TextsUpTo(n) ==
    IF n = 0 THEN {<<>>}
    ELSE LET shorter == TextsUpTo(n - 1)
         IN  shorter \cup {Append(t, c) : t \in shorter, c \in ReplyChars}

\* what read_until(b'\r') can return: nothing at all (timeout), a reply cut
\* short by the timeout, or a reply up to and including its terminator
Reads == TextsUpTo(MaxReplyLen) \cup {Append(t, CR) : t \in TextsUpTo(MaxReplyLen)}

\* what read_until(b'\r') returns when no reply is cut short: nothing, or a
\* reply with its terminator
Replies == {<<>>} \cup {Append(t, CR) : t \in TextsUpTo(MaxReplyLen)}

\* exception classes; NoExc stands for a normal return
NoExc == "none"
OpenOutcomes == {"ok", "SerialException", "ConnectionError"}

\* the limit switch that defines position zero
ReferencePoints == {"near", "far"}

\* the command a caller passes to query and command directly; '#1$' and
\* '#1:is_referenced' reach query through fetch_status and is_referenced
Messages == {"#1S"}

\* the travel range in steps, the highest speed the controller takes and the
\* default speed of the move operations
MaxSteps == 50000
MaxSpeed == 16000
DefaultSpeed == 4000

\* targets and distances a caller asks for
StepInputs == {-MaxSteps - 1, -1, 0, MaxSteps, MaxSteps + 1}

\* speeds a caller asks for
SpeedInputs == {DefaultSpeed, MaxSpeed + 1}

\* what the controller answers to a command of a move sequence: accepted,
\* rejected, or nothing before the timeout
CommandReplies == {<<"1", CR>>, <<"?", CR>>, <<>>}

\* what the controller answers to '#1$' when the status is polled: busy,
\* ready, stopped by a positioning error, ready after a positioning error,
\* rejected, or nothing
StatusReplies == {<<"0", CR>>, <<"1", CR>>, <<"4", CR>>, <<"5", CR>>, <<"?", CR>>, <<>>}

\* directions a caller passes to move_inf_start
Directions == {0, 1}

RECURSIVE Digits(_)
\* the decimal digits of a natural number, as the controller sends them
Digits(n) ==
    LET d == <<"0", "1", "2", "3", "4", "5", "6", "7", "8", "9">>[(n % 10) + 1]
    IN  IF n < 10 THEN <<d>> ELSE Append(Digits(n \div 10), d)

\* a position as the controller sends it
PositionText(p) == IF p < 0 THEN <<"-">> \o Digits(-p) ELSE Digits(p)

\* the reply to '#1C' of a controller at raw position p: the echo of the
\* command, the position, the terminator
PositionReply(p) == <<"1", "C">> \o PositionText(p) \o <<CR>>

\* the reply of a controller that rejects '#1C'
PositionRejected == <<"1", "C", "?", CR>>

\* raw positions the controller reports when the error is cleared
RawPositions == {-MaxSteps, 105}

\* what the controller answers to '#1C': the position, rejected, or nothing
PositionReplies == {PositionReply(p) : p \in RawPositions} \cup {PositionRejected, <<>>}

\* targets of the absolute moves after which the position is read
PositionTargets == {0, 1, 105, MaxSteps - 1, MaxSteps}

\* what the controller answers to '#1:is_referenced' inside move_absolute
ReferencedReplies == {<<"1", CR>>, <<"0", CR>>, <<>>}

\* abs()
Abs(n) == IF n < 0 THEN -n ELSE n

RECURSIVE Join(_)
\* the Python string of a text
Join(s) == IF s = <<>> THEN "" ELSE Head(s) \o Join(Tail(s))

(* ------------------------------ state ---------------------------------- *)

VARIABLES
    port_set,            \* _serial_port.port is not None
    is_open,             \* _serial_port.is_open
    _connection_error,
    _context_depth,
    _is_querying,
    _reference_changed,
    _status,
    _positioning_error,
    _reference_point,
    blocks,              \* `with` blocks the caller is inside
    pending,             \* exception travelling up through a `with` body
    raisedInScope,       \* an exception was raised in the current scope nest
    call,                \* the last operation: its inputs and its outcome
    pc,                  \* per thread: position in `with self: query(...)`
    tmp,                 \* per thread: count loaded by += / -=
    texc,                \* per thread: exception travelling up
    wait,                \* the caller's position inside wait_movement
    referencing,         \* a referencing run was started and no ready status
                         \* has been fetched since
    invalidated,         \* set_reference_point was called and no
                         \* do_referencing has returned since
    sig                  \* position of the signal handler in stop()

objVars == <<port_set, is_open, _connection_error, _context_depth, _is_querying>>
devVars == <<_reference_changed, _status, _positioning_error, _reference_point>>
runVars == <<wait, referencing, invalidated>>
seqVars == <<blocks, pending, raisedInScope, call, runVars>>
thrVars == <<pc, tmp, texc, sig>>
vars == <<objVars, devVars, seqVars, thrVars>>

Threads == {"gui", "worker"}

\* no operation's outcome is waiting for the caller
NoCall ==
    [op |-> "none", arg |-> "", exc |-> NoExc, ret |-> "None", sent |-> <<>>,
     reads |-> 0, rd |-> <<>>, text |-> <<>>, depth0 |-> 0, fault0 |-> FALSE, open0 |-> FALSE,
     steps |-> 0, speed |-> 0, log |-> "", rets |-> <<>>, changed0 |-> FALSE]

\* the caller is not inside wait_movement
NoWait == [pc |-> "idle", status |-> 0, fetches |-> 0, seen |-> <<>>]

\* __init__: portname given or discovered (port set, no fault), or 'auto'
\* with no Nanotec device found (port None, fault set)
InitObject ==
    /\ port_set \in BOOLEAN
    /\ _connection_error = ~port_set
    /\ is_open = FALSE
    /\ _context_depth = 0
    /\ _is_querying = FALSE
    /\ _reference_changed = FALSE
    /\ _status = 1
    /\ _positioning_error = 0
    /\ _reference_point \in ReferencePoints

\* no wait_movement under way, no referencing run started
InitRun ==
    /\ wait = NoWait
    /\ referencing = FALSE
    /\ invalidated = FALSE

(* --------------------- LinearStageControl, step by step ---------------- *)

\* `exc is type(ConnectionError)`: exc is the class of the exception raised
\* in the body, type(ConnectionError) is the metaclass `type`
ExcIsTypeOfConnectionError(exc) == exc = "type"

\* __enter__: the test guarding self._serial_port.open()
EnterOpens(depth, portSet, open) == depth = 0 /\ portSet /\ ~open

\* variant of ExitCloses that closes the port on every scope exit
ExitClosesAlways(depth) == TRUE

\* __exit__: the test guarding self._serial_port.close(), on the count
\* already decremented
ExitCloses(depth) == depth = 0

\* __exit__: the fault flag after a scope whose body raised exc (NoExc: the
\* body completed)
ExitFault(fault, exc) ==
    IF exc # NoExc /\ ~fault /\ ExcIsTypeOfConnectionError(exc) THEN TRUE ELSE fault

\* variant of error_outside_context that lets every call through
error_outside_context_off(depth) == FALSE

\* error_outside_context: the wrapper raises RuntimeError
error_outside_context(depth) == depth = 0

\* variant of error_inside_context that lets every call through
error_inside_context_off(depth) == FALSE

\* error_inside_context: the wrapper raises RuntimeError
error_inside_context(depth) == depth # 0

\* has_connection_error()
has_connection_error == _connection_error

\* variant of QueryRefused that ignores the fault flag
QueryRefusedNever(fault) == FALSE

\* query: `if not self._connection_error` fails, ConnectionError is raised
QueryRefused(fault) == fault

\* query, under error_outside_context and atomic_section, for a caller that
\* finds the guard free: what is raised, what is written, whether a read was
\* made and the text returned.  write() on a closed port raises pyserial's
\* PortNotOpenError, a SerialException.
query(depth, fault, open, message, rd) ==
    LET none == [exc |-> NoExc, sent |-> <<>>, reads |-> 0, text |-> <<>>]
    IN  IF error_outside_context(depth) THEN [none EXCEPT !.exc = "RuntimeError"]
        ELSE IF QueryRefused(fault) THEN [none EXCEPT !.exc = "ConnectionError"]
        ELSE IF ~open THEN [none EXCEPT !.exc = "SerialException"]
        ELSE IF Len(rd) = 0
             THEN [none EXCEPT !.exc = "TimeoutError",
                               !.sent = <<<<message, CR>>>>, !.reads = 1]
             ELSE [none EXCEPT !.sent = <<<<message, CR>>>>, !.reads = 1,
                               !.text = Strip(rd)]

\* the test of command on the text query returned; ans[-1] of an empty text
\* raises IndexError
command_result(ans) ==
    IF ans = <<>> THEN [exc |-> "IndexError", ret |-> "None"]
    ELSE IF LastChar(ans) = "?" THEN [exc |-> NoExc, ret |-> "False"]
    ELSE [exc |-> NoExc, ret |-> "True"]

\* command: query, then the test of the reply
command(depth, fault, open, message, rd) ==
    LET q == query(depth, fault, open, message, rd)
        r == IF q.exc # NoExc THEN [exc |-> q.exc, ret |-> "None"]
             ELSE command_result(q.text)
    IN  [exc |-> r.exc, ret |-> r.ret, sent |-> q.sent, reads |-> q.reads]

\* variant of is_referenced_result that ignores the reference-changed flag
is_referenced_ignoring_flag(ans, changed) ==
    IF ans = <<>> THEN [exc |-> "IndexError", ret |-> "None"]
    ELSE IF LastChar(ans) = "1" THEN [exc |-> NoExc, ret |-> "True"]
    ELSE [exc |-> NoExc, ret |-> "False"]

\* the test of is_referenced on the text query returned
is_referenced_result(ans, changed) ==
    IF ans = <<>> THEN [exc |-> "IndexError", ret |-> "None"]
    ELSE IF LastChar(ans) = "1" /\ ~changed THEN [exc |-> NoExc, ret |-> "True"]
    ELSE [exc |-> NoExc, ret |-> "False"]

\* is_referenced: query('#1:is_referenced'), then the test of the reply
is_referenced(depth, fault, open, changed, rd) ==
    LET q == query(depth, fault, open, "#1:is_referenced", rd)
        r == IF q.exc # NoExc THEN [exc |-> q.exc, ret |-> "None"]
             ELSE is_referenced_result(q.text, changed)
    IN  [exc |-> r.exc, ret |-> r.ret, sent |-> q.sent, reads |-> q.reads]

\* value of one hexadecimal digit, -1 for any other character
HexVal(c) ==
    CASE c = "0" -> 0 [] c = "1" -> 1 [] c = "2" -> 2 [] c = "3" -> 3
      [] c = "4" -> 4 [] c = "5" -> 5 [] c = "6" -> 6 [] c = "7" -> 7
      [] c = "8" -> 8 [] c = "9" -> 9
      [] c \in {"a", "A"} -> 10 [] c \in {"b", "B"} -> 11
      [] c \in {"c", "C"} -> 12 [] c \in {"d", "D"} -> 13
      [] c \in {"e", "E"} -> 14 [] c \in {"f", "F"} -> 15
      [] OTHER -> -1

RECURSIVE HexNumber(_)
HexNumber(s) ==
    IF s = <<>> THEN 0
    ELSE 16 * HexNumber(SubSeq(s, 1, Len(s) - 1)) + HexVal(LastChar(s))

\* int(s, 16): surrounding whitespace is ignored; <<>> stands for ValueError
\* (no digit, or a character that is no digit), <<v>> for the value v
IntBase16(s) ==
    LET t == Strip(s)
    IN  IF t = <<>> \/ \E i \in 1..Len(t) : HexVal(t[i]) < 0 THEN <<>>
        ELSE <<HexNumber(t)>>

RECURSIVE AfterLastDollar(_)
\* s.split("$")[-1]
AfterLastDollar(s) ==
    IF \E i \in 1..Len(s) : s[i] = "$"
    THEN AfterLastDollar(SubSeq(s, (CHOOSE i \in 1..Len(s) : s[i] = "$") + 1, Len(s)))
    ELSE s

\* s[-3:]
LastThree(s) == IF Len(s) <= 3 THEN s ELSE SubSeq(s, Len(s) - 2, Len(s))

\* variant of PositioningErrorBit that reads bit 1
PositioningErrorBitOne(status) == (status \div 2) % 2

\* (self._status & 0b0100) >> 2
PositioningErrorBit(status) == (status \div 4) % 2

\* fetch_status on the outcome q of query('#1$'): ret is <<>> for None (also
\* when an exception is raised), <<v>> for the status v returned
fetch_status(q, status, poserr) ==
    LET keep == [exc |-> q.exc, ret |-> <<>>, status |-> status, poserr |-> poserr,
                 sent |-> q.sent, reads |-> q.reads]
    IN  IF q.exc # NoExc THEN keep
        ELSE IF q.text = <<>> THEN [keep EXCEPT !.exc = "IndexError"]
        ELSE IF LastChar(q.text) = "?" THEN keep
        ELSE LET v == IntBase16(LastThree(AfterLastDollar(q.text)))
             IN  IF v = <<>> THEN [keep EXCEPT !.exc = "ValueError"]
                 ELSE [keep EXCEPT !.ret = <<v[1] % 16>>,
                                   !.status = v[1] % 16,
                                   !.poserr = PositioningErrorBit(v[1] % 16)]

\* is_control_ready on the outcome of fetch_status: `ans and ans & 1`
is_control_ready(fs) ==
    [fs EXCEPT !.ret = IF fs.exc = NoExc /\ fs.ret # <<>> /\ fs.ret[1] % 2 = 1
                       THEN "True" ELSE IF fs.exc = NoExc THEN "False" ELSE "None"]

\* a status with the ready bit was fetched
SeenReady(fs) == fs.exc = NoExc /\ fs.ret # <<>> /\ fs.ret[1] % 2 = 1

\* the status fetch_status returned, as the caller sees it
StatusText(ret) == IF ret = <<>> THEN "None" ELSE ToString(ret[1])

\* has_positioning_error on the outcome of fetch_status: the stored flag
has_positioning_error(fs) ==
    [fs EXCEPT !.ret = IF fs.exc # NoExc THEN "None"
                       ELSE IF fs.poserr # 0 THEN "True" ELSE "False"]

\* variant of DropTwo that keeps the echo of the command
DropTwoKeepsEcho(s) == s

\* ans[2:]
DropTwo(s) == IF Len(s) <= 2 THEN <<>> ELSE SubSeq(s, 3, Len(s))

\* clear_positioning_error, after it has set the flag to 0: query('#1D0'),
\* or query('#1C') and query('#1D' + position)
clear_positioning_error(depth, fault, open, reset_position, rd1, rd2) ==
    IF reset_position
    THEN LET q == query(depth, fault, open, "#1D0", rd1)
         IN  [exc |-> q.exc, sent |-> q.sent, reads |-> q.reads]
    ELSE LET q1 == query(depth, fault, open, "#1C", rd1)
         IN  IF q1.exc # NoExc
             THEN [exc |-> q1.exc, sent |-> q1.sent, reads |-> q1.reads]
             ELSE LET q2 == query(depth, fault, open,
                                  "#1D" \o Join(DropTwo(q1.text)), rd2)
                  IN  [exc |-> q2.exc, sent |-> q1.sent \o q2.sent,
                       reads |-> q1.reads + q2.reads]

RECURSIVE DecNumber(_)
DecNumber(s) ==
    IF s = <<>> THEN 0
    ELSE 10 * DecNumber(SubSeq(s, 1, Len(s) - 1)) + HexVal(LastChar(s))

\* int(s): surrounding whitespace is ignored, one sign is allowed; <<>>
\* stands for ValueError, <<v>> for the value v
IntBase10(s) ==
    LET t == Strip(s)
        signed == t # <<>> /\ Head(t) \in {"-", "+"}
        digits == IF signed THEN Tail(t) ELSE t
    IN  IF digits = <<>> \/ \E i \in 1..Len(digits) : HexVal(digits[i]) \notin 0..9
        THEN <<>>
        ELSE IF signed /\ Head(t) = "-" THEN <<-DecNumber(digits)>>
        ELSE <<DecNumber(digits)>>

\* variant of displayed_position without the offset
displayed_position_unshifted(real_pos, reference) == real_pos

\* get_position: disp_pos from real_pos
displayed_position(real_pos, reference) ==
    IF reference = "far" THEN real_pos ELSE real_pos + MaxSteps

\* get_position: query('#1C'), int(ans[2:]), the offset of the reference
\* side; a ValueError is logged and raised again
get_position(depth, fault, open, reference, rd) ==
    LET q == query(depth, fault, open, "#1C", rd)
        v == IntBase10(DropTwo(q.text))
        none == [exc |-> q.exc, ret |-> <<>>, sent |-> q.sent, reads |-> q.reads]
    IN  IF q.exc # NoExc THEN none
        ELSE IF v = <<>> THEN [none EXCEPT !.exc = "ValueError"]
        ELSE [none EXCEPT !.ret = <<displayed_position(v[1], reference)>>]

\* variant of wait_movement_polls that looks at the ready bit alone
wait_movement_polls_ready_only(status) == status % 2 = 0

\* variant of wait_movement_polls that goes on after the ready bit
wait_movement_polls_past_ready(status) == (status \div 4) % 2 = 0

\* wait_movement: `not status & 1 and not status & 4`, the loop goes on
wait_movement_polls(status) == status % 2 = 0 /\ (status \div 4) % 2 = 0

RECURSIVE run_commands(_, _, _, _, _)
\* consecutive self.command(...) statements: the first exception ends the
\* sequence, a rejected command does not; rets are the values returned
run_commands(depth, fault, open, msgs, rds) ==
    IF msgs = <<>> THEN [exc |-> NoExc, sent |-> <<>>, reads |-> 0, rets |-> <<>>]
    ELSE LET c == command(depth, fault, open, Head(msgs), Head(rds))
         IN  IF c.exc # NoExc
             THEN [exc |-> c.exc, sent |-> c.sent, reads |-> c.reads, rets |-> <<>>]
             ELSE LET rest == run_commands(depth, fault, open, Tail(msgs), Tail(rds))
                  IN  [exc |-> rest.exc, sent |-> c.sent \o rest.sent,
                       reads |-> c.reads + rest.reads, rets |-> <<c.ret>> \o rest.rets]

\* replies to a sequence of n commands: command f is not answered, command
\* r is rejected, the others are accepted (0: no such command); the
\* operations are tried with at most one of the two in a sequence
ReplyScript(n, f, r) ==
    [i \in 1..n |-> IF i = f THEN <<>> ELSE IF i = r THEN <<"?", CR>> ELSE <<"1", CR>>]

\* the commands of do_referencing
do_referencing_commands(reference) ==
    <<"#1p4", "#1l5154", IF reference = "near" THEN "#1d1" ELSE "#1d0", "#1o4000", "#1A">>

\* variant of relative_direction with the two sides exchanged
relative_direction_flipped(reference) == IF reference = "far" THEN "#1d0" ELSE "#1d1"

\* move_relative: the direction command
relative_direction(reference) == IF reference = "far" THEN "#1d1" ELSE "#1d0"

\* the commands of move_relative; none when abs(steps) > 50000
move_relative_commands(steps, speed, reference) ==
    IF Abs(steps) > MaxSteps THEN <<>>
    ELSE <<relative_direction(reference), "#1p1", "#1o" \o ToString(speed),
           "#1s" \o ToString(steps), "#1A">>

\* variant of raw_target that sends the target as given
raw_target_unshifted(steps, reference) == steps

\* move_absolute: `if not self._reference_point == 'far': steps = steps - 50000`
raw_target(steps, reference) == IF reference # "far" THEN steps - MaxSteps ELSE steps

\* the commands of move_absolute for a target in range
move_absolute_commands(steps, speed, reference) ==
    <<"#1p2", "#1o" \o ToString(speed), "#1s" \o ToString(raw_target(steps, reference)),
      "#1A">>

\* the commands of move_inf_start
move_inf_start_commands(dest, speed) ==
    <<"#1d" \o ToString(dest), "#1p5", "#1o" \o ToString(speed), "#1A">>

\* the commands of set_soft_ramp
set_soft_ramp_commands ==
    <<"#1:ramp_mode=+1", "#1:decelquick=+3000000", "#1:accel=+10000", "#1:decel=+10000">>

\* move_absolute: the reference test, the range test, then the commands;
\* log is the error message written when the move is given up
move_absolute(depth, fault, open, changed, reference, steps, speed, rd, rds) ==
    LET r == is_referenced(depth, fault, open, changed, rd)
        none == [exc |-> r.exc, sent |-> r.sent, reads |-> r.reads, rets |-> <<>>,
                 log |-> ""]
    IN  IF r.exc # NoExc THEN none
        ELSE IF r.ret # "True" THEN [none EXCEPT !.log = "not referenced"]
        ELSE IF Abs(steps) > MaxSteps THEN [none EXCEPT !.log = "out of range"]
        ELSE LET m == run_commands(depth, fault, open,
                                   move_absolute_commands(steps, speed, reference), rds)
             IN  [exc |-> m.exc, sent |-> r.sent \o m.sent,
                  reads |-> r.reads + m.reads, rets |-> m.rets, log |-> ""]

(* ------------------- one caller: the operations as steps ---------------- *)

\* the record of an operation: its name, its argument, what it raised and
\* returned (text: the string query returned), what it wrote and read, and
\* the state it was called in
Outcome(op, arg, exc, ret, sent, reads, rd) ==
    [op |-> op, arg |-> arg, exc |-> exc, ret |-> ret,
     sent |-> sent, reads |-> reads, rd |-> IF reads = 0 THEN <<>> ELSE rd,
     text |-> <<>>,
     depth0 |-> _context_depth, fault0 |-> _connection_error, open0 |-> is_open,
     steps |-> 0, speed |-> 0, log |-> "", rets |-> <<>>,
     changed0 |-> _reference_changed]

\* an exception raised inside a `with` body goes to that block's __exit__;
\* raised outside every block it reaches the caller
Raise(exc) ==
    /\ pending' = IF blocks > 0 THEN exc ELSE NoExc
    /\ raisedInScope' = (raisedInScope \/ (exc # NoExc /\ blocks > 0))

\* the caller is between two operations
Ready == call.op = "none" /\ wait.pc = "idle"

\* the caller takes the outcome of the operation that just ended and goes on
Return ==
    /\ call.op # "none"
    /\ call' = NoCall
    /\ UNCHANGED <<objVars, devVars, blocks, pending, raisedInScope, thrVars, runVars>>

\* `with self:` reaches __enter__
Enter ==
    /\ Ready
    /\ pending = NoExc
    /\ blocks < MaxBlocks
    /\ _context_depth - blocks > -MaxLeak
    /\ \E o \in OpenOutcomes :
       IF _connection_error
       THEN \* returns None, the body runs, __exit__ will be called
            /\ o = "ok"
            /\ blocks' = blocks + 1
            /\ raisedInScope' = (blocks > 0 /\ raisedInScope)
            /\ call' = Outcome("__enter__", "", NoExc, "None", <<>>, 0, <<>>)
            /\ UNCHANGED <<objVars, pending>>
       ELSE IF EnterOpens(_context_depth, port_set, is_open) /\ o # "ok"
       THEN \* open() raises: the body does not run
            /\ _connection_error' = (o = "ConnectionError")
            /\ Raise(o)
            /\ call' = Outcome("__enter__", "", o, "None", <<>>, 0, <<>>)
            /\ UNCHANGED <<port_set, is_open, _context_depth, _is_querying, blocks>>
       ELSE /\ o = "ok"
            /\ is_open' = (is_open \/ EnterOpens(_context_depth, port_set, is_open))
            /\ _context_depth' = _context_depth + 1
            /\ blocks' = blocks + 1
            /\ raisedInScope' = (blocks > 0 /\ raisedInScope)
            /\ call' = Outcome("__enter__", "", NoExc, "self", <<>>, 0, <<>>)
            /\ UNCHANGED <<port_set, _connection_error, _is_querying, pending>>
    /\ UNCHANGED <<devVars, thrVars, runVars>>

\* the end of a `with` body, reached normally or by an exception: __exit__
\* returns True, so the exception stops here
Exit ==
    /\ Ready
    /\ blocks > 0
    /\ _context_depth' = _context_depth - 1
    /\ is_open' = IF ExitCloses(_context_depth - 1) THEN FALSE ELSE is_open
    /\ _connection_error' = ExitFault(_connection_error, pending)
    /\ blocks' = blocks - 1
    /\ pending' = NoExc
    /\ call' = Outcome("__exit__", pending, NoExc, "True", <<>>, 0, <<>>)
    /\ UNCHANGED <<port_set, _is_querying, raisedInScope, devVars, thrVars, runVars>>

\* query(message)
Query ==
    /\ Ready
    /\ pending = NoExc
    /\ ~_is_querying
    /\ \E message \in Messages, rd \in Reads :
       LET q == query(_context_depth, _connection_error, is_open, message, rd)
       IN  /\ q.reads = 0 => rd = <<>>
           /\ call' = [Outcome("query", message, q.exc,
                                IF q.exc = NoExc THEN "str" ELSE "None",
                                q.sent, q.reads, rd) EXCEPT !.text = q.text]
           /\ Raise(q.exc)
    /\ UNCHANGED <<objVars, devVars, blocks, thrVars, runVars>>

\* command(message)
Command ==
    /\ Ready
    /\ pending = NoExc
    /\ ~_is_querying
    /\ \E message \in Messages, rd \in Replies :
       LET c == command(_context_depth, _connection_error, is_open, message, rd)
       IN  /\ c.reads = 0 => rd = <<>>
           /\ call' = Outcome("command", message, c.exc, c.ret, c.sent, c.reads, rd)
           /\ Raise(c.exc)
    /\ UNCHANGED <<objVars, devVars, blocks, thrVars, runVars>>

\* is_referenced()
IsReferenced ==
    /\ Ready
    /\ pending = NoExc
    /\ ~_is_querying
    /\ \E rd \in Replies :
       LET r == is_referenced(_context_depth, _connection_error, is_open,
                              _reference_changed, rd)
       IN  /\ r.reads = 0 => rd = <<>>
           /\ call' = Outcome("is_referenced", "", r.exc, r.ret, r.sent, r.reads, rd)
           /\ Raise(r.exc)
    /\ UNCHANGED <<objVars, devVars, blocks, thrVars, runVars>>

\* close_port()
ClosePort ==
    /\ Ready
    /\ pending = NoExc
    /\ is_open' = FALSE
    /\ call' = Outcome("close_port", "", NoExc, "None", <<>>, 0, <<>>)
    /\ UNCHANGED <<port_set, _connection_error, _context_depth, _is_querying,
                   devVars, blocks, pending, raisedInScope, thrVars, runVars>>

\* set_reference_point(reference)
SetReferencePoint ==
    /\ Ready
    /\ pending = NoExc
    /\ \E reference \in ReferencePoints :
       /\ _reference_point' = reference
       /\ call' = Outcome("set_reference_point", reference, NoExc, "None", <<>>, 0, <<>>)
    /\ _reference_changed' = TRUE
    /\ invalidated' = TRUE
    /\ UNCHANGED <<objVars, _status, _positioning_error, blocks, pending,
                   raisedInScope, thrVars, wait, referencing>>

\* reset_connection(), under error_inside_context: clears the fault flag,
\* probes the controller inside a scope of its own and returns True unless
\* an exception leaves that `with` statement
ResetConnection ==
    /\ Ready
    /\ pending = NoExc
    /\ ~_is_querying
    /\ \E o \in OpenOutcomes, rd \in Replies :
       IF error_inside_context(_context_depth)
       THEN /\ o = "ok" /\ rd = <<>>
            /\ call' = Outcome("reset_connection", "", "RuntimeError", "None", <<>>, 0, <<>>)
            /\ Raise("RuntimeError")
            /\ UNCHANGED <<objVars, devVars, blocks, referencing>>
       ELSE IF EnterOpens(_context_depth, port_set, is_open) /\ o # "ok"
       THEN \* __enter__ raises; `except Exception` sets the flag
            /\ rd = <<>>
            /\ _connection_error' = TRUE
            /\ call' = Outcome("reset_connection", "", NoExc, "False", <<>>, 0, <<>>)
            /\ UNCHANGED <<port_set, is_open, _context_depth, _is_querying, devVars,
                           blocks, pending, raisedInScope, referencing>>
       ELSE LET opened == is_open \/ EnterOpens(_context_depth, port_set, is_open)
                depth1 == _context_depth + 1
                probe  == is_control_ready(
                              fetch_status(query(depth1, FALSE, opened, "#1$", rd),
                                           _status, _positioning_error))
            IN  /\ o = "ok"
                /\ probe.reads = 0 => rd = <<>>
                /\ _status' = probe.status
                /\ _positioning_error' = probe.poserr
                /\ referencing' = (referencing /\ probe.ret # "True")
                /\ _context_depth' = depth1 - 1
                /\ is_open' = IF ExitCloses(depth1 - 1) THEN FALSE ELSE opened
                /\ _connection_error' = ExitFault(FALSE, probe.exc)
                /\ call' = Outcome("reset_connection", probe.exc, NoExc, "True",
                                   probe.sent, probe.reads, rd)
                /\ UNCHANGED <<port_set, _is_querying, _reference_changed,
                               _reference_point, blocks, pending, raisedInScope>>
    /\ UNCHANGED <<thrVars, wait, invalidated>>

\* fetch_status on the reply rd, in the current state
Status(rd) ==
    fetch_status(query(_context_depth, _connection_error, is_open, "#1$", rd),
                 _status, _positioning_error)

\* n writes of the status query
StatusQueries(n) == [i \in 1..n |-> <<"#1$", CR>>]

\* fetch_status()
FetchStatus ==
    /\ Ready
    /\ pending = NoExc
    /\ ~_is_querying
    /\ \E rd \in Reads :
       LET fs == Status(rd)
       IN  /\ fs.reads = 0 => rd = <<>>
           /\ _status' = fs.status
           /\ _positioning_error' = fs.poserr
           /\ referencing' = (referencing /\ ~SeenReady(fs))
           /\ call' = Outcome("fetch_status", "", fs.exc, StatusText(fs.ret),
                              fs.sent, fs.reads, rd)
           /\ Raise(fs.exc)
    /\ UNCHANGED <<objVars, _reference_changed, _reference_point, blocks, thrVars,
                   wait, invalidated>>

\* is_control_ready()
IsControlReady ==
    /\ Ready
    /\ pending = NoExc
    /\ ~_is_querying
    /\ \E rd \in StatusReplies :
       LET fs == Status(rd)
           r  == is_control_ready(fs)
       IN  /\ fs.reads = 0 => rd = <<>>
           /\ _status' = fs.status
           /\ _positioning_error' = fs.poserr
           /\ referencing' = (referencing /\ ~SeenReady(fs))
           /\ call' = Outcome("is_control_ready", "", r.exc, r.ret, r.sent, r.reads, rd)
           /\ Raise(r.exc)
    /\ UNCHANGED <<objVars, _reference_changed, _reference_point, blocks, thrVars,
                   wait, invalidated>>

\* has_positioning_error()
HasPositioningError ==
    /\ Ready
    /\ pending = NoExc
    /\ ~_is_querying
    /\ \E rd \in StatusReplies :
       LET fs == Status(rd)
           r  == has_positioning_error(fs)
       IN  /\ fs.reads = 0 => rd = <<>>
           /\ _status' = fs.status
           /\ _positioning_error' = fs.poserr
           /\ referencing' = (referencing /\ ~SeenReady(fs))
           /\ call' = Outcome("has_positioning_error", "", r.exc, r.ret,
                              r.sent, r.reads, rd)
           /\ Raise(r.exc)
    /\ UNCHANGED <<objVars, _reference_changed, _reference_point, blocks, thrVars,
                   wait, invalidated>>

\* clear_positioning_error(reset_position)
ClearPositioningError ==
    /\ Ready
    /\ pending = NoExc
    /\ ~_is_querying
    /\ \E reset_position \in BOOLEAN, rd1 \in PositionReplies, rd2 \in CommandReplies :
       LET c == clear_positioning_error(_context_depth, _connection_error, is_open,
                                        reset_position, rd1, rd2)
       IN  /\ c.reads = 0 => rd1 = <<>>
           /\ c.reads < 2 => rd2 = <<>>
           /\ call' = Outcome("clear_positioning_error",
                              IF reset_position THEN "True" ELSE "False",
                              c.exc, "None", c.sent, c.reads, rd1)
           /\ Raise(c.exc)
    /\ _positioning_error' = 0
    /\ UNCHANGED <<objVars, _reference_changed, _status, _reference_point, blocks,
                   thrVars, runVars>>

\* wait_movement(): the first fetch_status.  `status & 1` on the None that
\* fetch_status returns for a rejected query raises TypeError.
WaitMovementBegin ==
    /\ Ready
    /\ pending = NoExc
    /\ ~_is_querying
    /\ \E rd \in StatusReplies :
       LET fs == Status(rd)
       IN  /\ fs.reads = 0 => rd = <<>>
           /\ _status' = fs.status
           /\ _positioning_error' = fs.poserr
           /\ referencing' = (referencing /\ ~SeenReady(fs))
           /\ IF fs.exc # NoExc \/ fs.ret = <<>>
              THEN LET exc == IF fs.exc # NoExc THEN fs.exc ELSE "TypeError"
                   IN  /\ call' = Outcome("wait_movement", "", exc, "None",
                                          fs.sent, fs.reads, rd)
                       /\ Raise(exc)
                       /\ UNCHANGED wait
              ELSE /\ wait' = [pc |-> "loop", status |-> fs.ret[1], fetches |-> 1,
                             seen |-> <<fs.ret[1]>>]
                   /\ UNCHANGED <<call, pending, raisedInScope>>
    /\ UNCHANGED <<objVars, _reference_changed, _reference_point, blocks, thrVars,
                   invalidated>>

\* wait_movement(): one turn of the loop, time.sleep(0.1) and the next
\* fetch_status; after MaxPolls polls the movement has come to its end
WaitMovementPoll ==
    /\ wait.pc = "loop"
    /\ wait_movement_polls(wait.status)
    /\ \E rd \in StatusReplies :
       LET fs == Status(rd)
       IN  /\ fs.reads = 0 => rd = <<>>
           /\ wait.fetches >= MaxPolls
                  => ~(fs.exc = NoExc /\ fs.ret # <<>> /\ wait_movement_polls(fs.ret[1]))
           /\ _status' = fs.status
           /\ _positioning_error' = fs.poserr
           /\ referencing' = (referencing /\ ~SeenReady(fs))
           /\ IF fs.exc # NoExc \/ fs.ret = <<>>
              THEN LET exc == IF fs.exc # NoExc THEN fs.exc ELSE "TypeError"
                   IN  /\ call' = [Outcome("wait_movement", "", exc, "None",
                                           StatusQueries(wait.fetches + fs.reads),
                                           wait.fetches + fs.reads, rd)
                                   EXCEPT !.rets = wait.seen]
                       /\ Raise(exc)
                       /\ wait' = NoWait
              ELSE /\ wait' = [wait EXCEPT !.status = fs.ret[1], !.fetches = @ + 1,
                                          !.seen = Append(@, fs.ret[1])]
                   /\ UNCHANGED <<call, pending, raisedInScope>>
    /\ UNCHANGED <<objVars, _reference_changed, _reference_point, blocks, thrVars,
                   invalidated>>

\* wait_movement(): the loop has ended; has_positioning_error() fetches the
\* status once more and the reference is marked as changed on an error
WaitMovementEnd ==
    /\ wait.pc = "loop"
    /\ ~wait_movement_polls(wait.status)
    /\ \E rd \in StatusReplies :
       LET fs == Status(rd)
           r  == has_positioning_error(fs)
       IN  /\ fs.reads = 0 => rd = <<>>
           /\ _status' = fs.status
           /\ _positioning_error' = fs.poserr
           /\ referencing' = (referencing /\ ~SeenReady(fs))
           /\ _reference_changed' = (_reference_changed \/ r.ret = "True")
           /\ call' = [Outcome("wait_movement", "", r.exc, "None",
                               StatusQueries(wait.fetches + fs.reads),
                               wait.fetches + fs.reads, rd)
                       EXCEPT !.rets = wait.seen]
           /\ Raise(r.exc)
    /\ wait' = NoWait
    /\ UNCHANGED <<objVars, _reference_point, blocks, thrVars, invalidated>>

\* stop()
Stop ==
    /\ Ready
    /\ pending = NoExc
    /\ ~_is_querying
    /\ \E rd \in CommandReplies :
       LET c == command(_context_depth, _connection_error, is_open, "#1S", rd)
       IN  /\ c.reads = 0 => rd = <<>>
           /\ referencing' = (referencing /\ c.ret # "True")
           /\ call' = Outcome("stop", "", c.exc, "None", c.sent, c.reads, rd)
           /\ Raise(c.exc)
    /\ UNCHANGED <<objVars, devVars, blocks, thrVars, wait, invalidated>>

\* stop_soft()
StopSoft ==
    /\ Ready
    /\ pending = NoExc
    /\ ~_is_querying
    /\ \E rd \in CommandReplies :
       LET c == command(_context_depth, _connection_error, is_open, "#1S1", rd)
       IN  /\ c.reads = 0 => rd = <<>>
           /\ referencing' = (referencing /\ c.ret # "True")
           /\ call' = Outcome("stop_soft", "", c.exc, "None", c.sent, c.reads, rd)
           /\ Raise(c.exc)
    /\ UNCHANGED <<objVars, devVars, blocks, thrVars, wait, invalidated>>

\* do_referencing(): the reference-changed flag is cleared as soon as the
\* start command has been answered
DoReferencing ==
    /\ Ready
    /\ pending = NoExc
    /\ ~_is_querying
    /\ \E f \in 0..5, j \in 0..5 :
       LET r == run_commands(_context_depth, _connection_error, is_open,
                             do_referencing_commands(_reference_point),
                             ReplyScript(5, f, j))
       IN  /\ (f = 0 \/ j = 0) /\ f <= r.reads /\ j <= r.reads
           /\ _reference_changed' = (_reference_changed /\ r.exc # NoExc)
           /\ invalidated' = (invalidated /\ r.exc # NoExc)
           /\ referencing' = (referencing \/ (Len(r.rets) = 5 /\ r.rets[5] = "True"))
           /\ call' = [Outcome("do_referencing", _reference_point, r.exc, "None",
                               r.sent, r.reads, <<>>) EXCEPT !.rets = r.rets]
           /\ Raise(r.exc)
    /\ UNCHANGED <<objVars, _status, _positioning_error, _reference_point, blocks,
                   thrVars, wait>>

\* move_relative(steps, speed)
MoveRelative ==
    /\ Ready
    /\ pending = NoExc
    /\ ~_is_querying
    /\ \E steps \in StepInputs, speed \in SpeedInputs, f \in 0..5, j \in 0..5 :
       LET r == run_commands(_context_depth, _connection_error, is_open,
                             move_relative_commands(steps, speed, _reference_point),
                             ReplyScript(5, f, j))
       IN  /\ (f = 0 \/ j = 0) /\ f <= r.reads /\ j <= r.reads
           /\ call' = [Outcome("move_relative", _reference_point, r.exc, "None",
                               r.sent, r.reads, <<>>)
                       EXCEPT !.steps = steps, !.speed = speed, !.rets = r.rets,
                              !.log = IF Abs(steps) > MaxSteps THEN "too many steps"
                                      ELSE ""]
           /\ Raise(r.exc)
    /\ UNCHANGED <<objVars, devVars, blocks, thrVars, runVars>>

\* move_absolute(steps, speed)
MoveAbsolute ==
    /\ Ready
    /\ pending = NoExc
    /\ ~_is_querying
    /\ \E steps \in StepInputs, speed \in SpeedInputs, rd \in ReferencedReplies,
          f \in 0..4, j \in 0..4 :
       LET m == move_absolute(_context_depth, _connection_error, is_open,
                              _reference_changed, _reference_point, steps, speed,
                              rd, ReplyScript(4, f, j))
       IN  /\ m.reads = 0 => rd = <<>>
           /\ (f = 0 \/ j = 0) /\ f < m.reads /\ j < m.reads
           /\ call' = [Outcome("move_absolute", _reference_point, m.exc, "None",
                               m.sent, m.reads, rd)
                       EXCEPT !.steps = steps, !.speed = speed, !.rets = m.rets,
                              !.log = m.log]
           /\ Raise(m.exc)
    /\ UNCHANGED <<objVars, devVars, blocks, thrVars, runVars>>

\* move_inf_start(dest, speed)
MoveInfStart ==
    /\ Ready
    /\ pending = NoExc
    /\ ~_is_querying
    /\ \E dest \in Directions, speed \in SpeedInputs, f \in 0..4, j \in 0..4 :
       LET r == run_commands(_context_depth, _connection_error, is_open,
                             move_inf_start_commands(dest, speed), ReplyScript(4, f, j))
       IN  /\ (f = 0 \/ j = 0) /\ f <= r.reads /\ j <= r.reads
           /\ call' = [Outcome("move_inf_start", ToString(dest), r.exc, "None",
                               r.sent, r.reads, <<>>)
                       EXCEPT !.speed = speed, !.rets = r.rets]
           /\ Raise(r.exc)
    /\ UNCHANGED <<objVars, devVars, blocks, thrVars, runVars>>

\* set_soft_ramp(): four commands inside a `with self:` of its own, whose
\* __exit__ returns True; arg is the exception the block ended with
SetSoftRamp ==
    /\ Ready
    /\ pending = NoExc
    /\ ~_is_querying
    /\ _context_depth - blocks > -MaxLeak
    /\ \E o \in OpenOutcomes, f \in 0..4, j \in 0..4 :
       IF _connection_error
       THEN \* __enter__ returns None, the body runs, __exit__ counts down
            LET r == run_commands(_context_depth, TRUE, is_open,
                                  set_soft_ramp_commands, ReplyScript(4, f, j))
            IN  /\ o = "ok" /\ f = 0 /\ j = 0
                /\ _context_depth' = _context_depth - 1
                /\ is_open' = IF ExitCloses(_context_depth - 1) THEN FALSE ELSE is_open
                /\ _connection_error' = ExitFault(TRUE, r.exc)
                /\ call' = [Outcome("set_soft_ramp", r.exc, NoExc, "None",
                                    r.sent, r.reads, <<>>) EXCEPT !.rets = r.rets]
                /\ UNCHANGED <<port_set, _is_querying, pending, raisedInScope>>
       ELSE IF EnterOpens(_context_depth, port_set, is_open) /\ o # "ok"
       THEN \* open() raises in __enter__: the exception reaches the caller
            /\ f = 0 /\ j = 0
            /\ _connection_error' = (o = "ConnectionError")
            /\ call' = Outcome("set_soft_ramp", "", o, "None", <<>>, 0, <<>>)
            /\ Raise(o)
            /\ UNCHANGED <<port_set, is_open, _context_depth, _is_querying>>
       ELSE LET opened == is_open \/ EnterOpens(_context_depth, port_set, is_open)
                depth1 == _context_depth + 1
                r == run_commands(depth1, FALSE, opened, set_soft_ramp_commands,
                                  ReplyScript(4, f, j))
            IN  /\ o = "ok"
                /\ (f = 0 \/ j = 0) /\ f <= r.reads /\ j <= r.reads
                /\ _context_depth' = depth1 - 1
                /\ is_open' = IF ExitCloses(depth1 - 1) THEN FALSE ELSE opened
                /\ _connection_error' = ExitFault(FALSE, r.exc)
                /\ call' = [Outcome("set_soft_ramp", r.exc, NoExc, "None",
                                    r.sent, r.reads, <<>>) EXCEPT !.rets = r.rets]
                /\ UNCHANGED <<port_set, _is_querying, pending, raisedInScope>>
    /\ UNCHANGED <<devVars, blocks, thrVars, runVars>>

(* ------------------------------ one caller ----------------------------- *)

Init ==
    /\ InitObject
    /\ InitRun
    /\ blocks = 0
    /\ pending = NoExc
    /\ raisedInScope = FALSE
    /\ call = NoCall
    /\ pc = [t \in Threads |-> "idle"]
    /\ tmp = [t \in Threads |-> 0]
    /\ texc = [t \in Threads |-> NoExc]
    /\ sig = "none"

Next ==
    \/ Enter
    \/ Exit
    \/ Query
    \/ Command
    \/ IsReferenced
    \/ ClosePort
    \/ SetReferencePoint
    \/ ResetConnection
    \/ FetchStatus
    \/ IsControlReady
    \/ HasPositioningError
    \/ ClearPositioningError
    \/ WaitMovementBegin
    \/ WaitMovementPoll
    \/ WaitMovementEnd
    \/ Stop
    \/ StopSoft
    \/ DoReferencing
    \/ MoveRelative
    \/ MoveAbsolute
    \/ MoveInfStart
    \/ SetSoftRamp
    \/ Return

Spec == Init /\ [][Next]_vars

(* --------------------------- get_position ------------------------------- *)
(* The controller is where an absolute move to one of PositionTargets has   *)
(* taken it (the raw position move_absolute commands for the reference      *)
(* side in force), and answers '#1C' with that position, with a rejection,  *)
(* with an echo alone, or not at all.                                       *)

\* get_position()
GetPosition ==
    /\ Ready
    /\ pending = NoExc
    /\ ~_is_querying
    /\ \E target \in PositionTargets :
       LET raw == raw_target(target, _reference_point)
       IN  \E rd \in {PositionReply(raw), PositionRejected, <<"1", "C", CR>>, <<>>} :
           LET g == get_position(_context_depth, _connection_error, is_open,
                                 _reference_point, rd)
           IN  /\ g.reads = 0 => rd = <<>>
               /\ call' = [Outcome("get_position", _reference_point, g.exc, "None",
                                   g.sent, g.reads, rd)
                           EXCEPT !.steps = target, !.rets = g.ret]
               /\ Raise(g.exc)
    /\ UNCHANGED <<objVars, devVars, blocks, thrVars, runVars>>

NextPosition ==
    \/ Enter
    \/ Exit
    \/ SetReferencePoint
    \/ GetPosition
    \/ Return

SpecPosition == Init /\ [][NextPosition]_vars

(* ------------------- steps_to_mm and mm_to_steps ------------------------ *)
(* A float is [num, den, err]: the value num/den * (1 + err / 2^MantissaBits)*)
(* with num/den in lowest terms.  An operation whose exact result is an     *)
(* integer is exact; any other is rounded, off by e \in Ulps.               *)

Ulp == 2 ^ MantissaBits

\* rounding errors of one operation, in parts of 2^MantissaBits
Ulps == {-1, 0, 1}

\* microstep settings of the controller
Substeps == {1, 2, 4, 8, 16}

\* step counts the conversions are tried on: both ends of the range and
\* the neighbourhood of every multiple of ConvStride
ConvSteps ==
    {n \in 0 .. MaxSteps :
        n % ConvStride \in {0, 1, ConvStride - 1} \/ n \in {2, 3, 7, 33333}}

RECURSIVE Gcd(_, _)
Gcd(a, b) == IF b = 0 THEN a ELSE Gcd(b, a % b)

\* the float nearest to num/den
Float(num, den, err) ==
    LET g == Gcd(num, den)
    IN  [num |-> num \div g, den |-> den \div g,
         err |-> IF num = 0 \/ den \div g = 1 THEN 0 ELSE err]

\* a / b on floats holding integers
FloatDiv(a, b, e) == Float(a, b, e)

\* x * y on floats
FloatMul(x, y, e) ==
    LET r == Float(x.num * y.num, x.den * y.den, 0)
    IN  [r EXCEPT !.err = IF r.num = 0 THEN 0
                          ELSE IF x.err = 0 /\ y.err = 0 /\ r.den = 1 THEN 0
                          ELSE x.err + y.err + e]

\* variant of RoundInt: int(x), no round()
RoundIntTruncating(x) ==
    LET q == x.num \div x.den
        r == x.num % x.den
        a == 2 * x.num * x.err
    IN  IF a \div Ulp < -(2 * r) THEN q - 1
        ELSE IF a \div Ulp >= 2 * (x.den - r) THEN q + 1
        ELSE q

\* int(round(Decimal(x))): Decimal(x) is exact, round() goes to the nearest
\* integer and to the even one on a tie.  With q, r the quotient and the
\* remainder of num by den and a = 2 * num * err:
\*     x - q - 1/2 = (a - (den - 2r) * Ulp) / (2 * den * Ulp)
\*     x - q + 1/2 = (a + (den + 2r) * Ulp) / (2 * den * Ulp)
RoundInt(x) ==
    LET q == x.num \div x.den
        r == x.num % x.den
        a == 2 * x.num * x.err
        k == a \div Ulp
        m == a % Ulp
        up == x.den - 2 * r
        down == -(x.den + 2 * r)
        even(i, j) == IF i % 2 = 0 THEN i ELSE j
    IN  IF k > up \/ (k = up /\ m > 0) THEN q + 1
        ELSE IF k = up /\ m = 0 THEN even(q, q + 1)
        ELSE IF k < down THEN q - 1
        ELSE IF k = down /\ m = 0 THEN even(q, q - 1)
        ELSE q

\* steps_to_mm(steps): (1.25 / steps_per_turn) * steps, 1.25 being 5/4
steps_to_mm(substeps, steps, e1, e2) ==
    LET steps_per_turn == substeps * 200
    IN  FloatMul(FloatDiv(5, 4 * steps_per_turn, e1), Float(steps, 1, 0), e2)

\* mm_to_steps(mm): int(round(Decimal((steps_per_turn / 1.25) * mm)))
mm_to_steps(substeps, mm, e1, e2) ==
    LET steps_per_turn == substeps * 200
    IN  RoundInt(FloatMul(FloatDiv(4 * steps_per_turn, 5, e1), mm, e2))

\* mm_to_steps(steps_to_mm(steps)) with _substeps as read from the controller
Convert ==
    /\ Ready
    /\ \E substeps \in Substeps, steps \in ConvSteps, e1, e2, e3, e4 \in Ulps :
       LET mm == steps_to_mm(substeps, steps, e1, e2)
       IN  call' = [Outcome("mm_to_steps", ToString(substeps), NoExc, "None",
                            <<>>, 0, <<>>)
                        EXCEPT !.steps = steps,
                               !.speed = mm.err,
                               !.rets = <<mm_to_steps(substeps, mm, e3, e4)>>]
    /\ UNCHANGED <<objVars, devVars, blocks, pending, raisedInScope, thrVars,
                   runVars>>

\* lengths in millimetres a caller passes to mm_to_steps: 0 and 1.25, which
\* are floats, and the floats next to 17/2560, 3/2560 and 1/320 on either
\* side (none of the three is a float)
MmInputs ==
    {Float(0, 1, 0), Float(5, 4, 0)}
        \cup {[num |-> n, den |-> 2560, err |-> e] : n \in {3, 8, 17}, e \in {-1, 1}}

\* (steps_per_turn / 1.25) * mm in exact arithmetic, mm taken at its value
exact_product(substeps, mm) ==
    LET steps_per_turn == substeps * 200
    IN  [Float(4 * steps_per_turn * mm.num, 5 * mm.den, 0) EXCEPT !.err = mm.err]

\* mm_to_steps(mm) with _substeps as read from the controller; steps is mm
\* in steps, rounded half to even in exact arithmetic
MmToSteps ==
    /\ Ready
    /\ \E substeps \in Substeps, mm \in MmInputs, e1, e2 \in Ulps :
       call' = [Outcome("mm_to_steps(mm)", ToString(substeps), NoExc, "None",
                        <<>>, 0, <<>>)
                    EXCEPT !.steps = RoundInt(exact_product(substeps, mm)),
                           !.speed = mm.err,
                           !.log = ToString(mm.num) \o "/" \o ToString(mm.den),
                           !.rets = <<mm_to_steps(substeps, mm, e1, e2)>>]
    /\ UNCHANGED <<objVars, devVars, blocks, pending, raisedInScope, thrVars,
                   runVars>>

NextConvert ==
    \/ Convert
    \/ MmToSteps
    \/ Return

SpecConvert == Init /\ [][NextConvert]_vars

(* -------------------- one caller that waits for the stage --------------- *)
(* The caller opens scopes and calls wait_movement; the thread that runs    *)
(* the loop is scheduled again after every time.sleep(0.1).                 *)

NextWait ==
    \/ Enter
    \/ Exit
    \/ WaitMovementBegin
    \/ WaitMovementPoll
    \/ WaitMovementEnd
    \/ Return

SpecWait ==
    /\ Init
    /\ [][NextWait]_vars
    /\ WF_vars(WaitMovementPoll)
    /\ WF_vars(WaitMovementEnd)

(* ------------- two threads: `with self: query(...)` step by step -------- *)
(* The GUI thread and the wait_movement worker share one controller object. *)
(* Each step is one read or one write of a shared field, or one call into   *)
(* the serial library.                                                      *)

Goto(t, l) == pc' = [pc EXCEPT ![t] = l] /\ sig' = sig

\* a query has written its command and not yet read the reply
InFlight(t) == pc[t] = "q_read"

\* __enter__: `if not self._connection_error`, then the test before open()
T_EnterTest(t) ==
    /\ pc[t] = "idle"
    /\ _context_depth > -MaxLeak
    /\ _context_depth < MaxBlocks
    /\ Goto(t, IF _connection_error THEN "body"
               ELSE IF EnterOpens(_context_depth, port_set, is_open) THEN "e_open"
               ELSE "e_load")
    /\ UNCHANGED <<objVars, devVars, seqVars, tmp, texc>>

\* __enter__: self._serial_port.open(); pyserial refuses a port already open
T_EnterOpen(t, o) ==
    /\ pc[t] = "e_open"
    /\ is_open => o = "SerialException"
    /\ IF o = "ok"
       THEN /\ is_open' = TRUE
            /\ Goto(t, "e_load")
            /\ UNCHANGED _connection_error
       ELSE /\ _connection_error' = (_connection_error \/ o = "ConnectionError")
            /\ Goto(t, "idle")
            /\ UNCHANGED is_open
    /\ UNCHANGED <<port_set, _context_depth, _is_querying, devVars, seqVars, tmp, texc>>

\* __enter__: self._context_depth += 1, the load
T_EnterLoad(t) ==
    /\ pc[t] = "e_load"
    /\ tmp' = [tmp EXCEPT ![t] = _context_depth]
    /\ Goto(t, "e_store")
    /\ UNCHANGED <<objVars, devVars, seqVars, texc>>

\* __enter__: self._context_depth += 1, the store
T_EnterStore(t) ==
    /\ pc[t] = "e_store"
    /\ _context_depth' = tmp[t] + 1
    /\ Goto(t, "body")
    /\ UNCHANGED <<port_set, is_open, _connection_error, _is_querying, devVars,
                   seqVars, tmp, texc>>

\* the body of the `with` block calls query: error_outside_context
T_QueryContext(t) ==
    /\ pc[t] = "body"
    /\ IF error_outside_context(_context_depth)
       THEN /\ texc' = [texc EXCEPT ![t] = "RuntimeError"]
            /\ Goto(t, "x_load")
       ELSE /\ Goto(t, "q_wait")
            /\ UNCHANGED texc
    /\ UNCHANGED <<objVars, devVars, seqVars, tmp>>

\* atomic_section: `while args[0]._is_querying: pass` finds the flag clear
T_GuardTest(t) ==
    /\ pc[t] = "q_wait"
    /\ ~_is_querying
    /\ Goto(t, "q_set")
    /\ UNCHANGED <<objVars, devVars, seqVars, tmp, texc>>

\* atomic_section: args[0]._is_querying = True
T_GuardSet(t) ==
    /\ pc[t] = "q_set"
    /\ _is_querying' = TRUE
    /\ Goto(t, "q_write")
    /\ UNCHANGED <<port_set, is_open, _connection_error, _context_depth, devVars,
                   seqVars, tmp, texc>>

\* query: the test of the fault flag and self._serial_port.write(...)
T_QueryWrite(t) ==
    /\ pc[t] = "q_write"
    /\ IF _connection_error
       THEN /\ texc' = [texc EXCEPT ![t] = "ConnectionError"]
            /\ Goto(t, "q_fin")
       ELSE IF ~is_open
       THEN /\ texc' = [texc EXCEPT ![t] = "SerialException"]
            /\ Goto(t, "q_fin")
       ELSE /\ Goto(t, "q_read")
            /\ UNCHANGED texc
    /\ UNCHANGED <<objVars, devVars, seqVars, tmp>>

\* query: self._serial_port.read_until(b'\r'); read() on a port closed in
\* the meantime raises pyserial's PortNotOpenError
T_QueryRead(t, rd) ==
    /\ pc[t] = "q_read"
    /\ texc' = [texc EXCEPT ![t] = IF ~is_open THEN "SerialException"
                                   ELSE IF Len(rd) = 0 THEN "TimeoutError"
                                   ELSE NoExc]
    /\ Goto(t, "q_fin")
    /\ UNCHANGED <<objVars, devVars, seqVars, tmp>>

\* variant of GuardAfterQuery that keeps the guard
GuardAfterQueryHeld == TRUE

\* atomic_section: the value `finally` stores in _is_querying
GuardAfterQuery == FALSE

\* atomic_section: `finally: args[0]._is_querying = False`
T_GuardRelease(t) ==
    /\ pc[t] = "q_fin"
    /\ _is_querying' = GuardAfterQuery
    /\ Goto(t, IF texc[t] = NoExc THEN "body" ELSE "x_load")
    /\ UNCHANGED <<port_set, is_open, _connection_error, _context_depth, devVars,
                   seqVars, tmp, texc>>

\* the body ends: __exit__, self._context_depth -= 1, the load
T_ExitLoad(t) ==
    /\ pc[t] \in {"body", "x_load"}
    /\ tmp' = [tmp EXCEPT ![t] = _context_depth]
    /\ Goto(t, "x_store")
    /\ UNCHANGED <<objVars, devVars, seqVars, texc>>

\* __exit__: self._context_depth -= 1, the store
T_ExitStore(t) ==
    /\ pc[t] = "x_store"
    /\ _context_depth' = tmp[t] - 1
    /\ Goto(t, "x_test")
    /\ UNCHANGED <<port_set, is_open, _connection_error, _is_querying, devVars,
                   seqVars, tmp, texc>>

\* __exit__: `if self._context_depth == 0: self._serial_port.close()`, then
\* the handling of the exception and `return True`
T_ExitClose(t) ==
    /\ pc[t] = "x_test"
    /\ is_open' = IF ExitCloses(_context_depth) THEN FALSE ELSE is_open
    /\ _connection_error' = ExitFault(_connection_error, texc[t])
    /\ texc' = [texc EXCEPT ![t] = NoExc]
    /\ Goto(t, "idle")
    /\ UNCHANGED <<port_set, _context_depth, _is_querying, devVars, seqVars, tmp>>

InitThreads ==
    /\ InitObject
    /\ InitRun
    /\ blocks = 0
    /\ pending = NoExc
    /\ raisedInScope = FALSE
    /\ call = NoCall
    /\ pc = [t \in Threads |-> "idle"]
    /\ tmp = [t \in Threads |-> 0]
    /\ texc = [t \in Threads |-> NoExc]
    /\ sig = "none"

NextThreads ==
    \E t \in Threads :
        \/ T_EnterTest(t)
        \/ \E o \in OpenOutcomes : T_EnterOpen(t, o)
        \/ T_EnterLoad(t)
        \/ T_EnterStore(t)
        \/ T_QueryContext(t)
        \/ T_GuardTest(t)
        \/ T_GuardSet(t)
        \/ T_QueryWrite(t)
        \/ \E rd \in Reads : T_QueryRead(t, rd)
        \/ T_GuardRelease(t)
        \/ T_ExitLoad(t)
        \/ T_ExitStore(t)
        \/ T_ExitClose(t)

SpecThreads == InitThreads /\ [][NextThreads]_vars

(* ------------------------------ properties ----------------------------- *)

\* operations that are query or one call of query
QueryOps == {"query", "command", "is_referenced"}

\* the read rd ends with its terminator
Terminated(rd) == rd # <<>> /\ LastChar(rd) = CR

\* the read rd without its terminator
Body(rd) == IF Terminated(rd) THEN SubSeq(rd, 1, Len(rd) - 1) ELSE rd

\* the last character of rd that is not whitespace is c
ReplyEndsWith(rd, c) ==
    \E i \in 1..Len(rd) :
        /\ rd[i] = c
        /\ \A j \in (i + 1)..Len(rd) : IsSpace(rd[j])

\* t is s without its leading and trailing whitespace
IsStripped(t, s) ==
    \E a \in 0..Len(s) : \E b \in 0..(Len(s) - a) :
        /\ t = SubSeq(s, a + 1, Len(s) - b)
        /\ \A i \in 1..a : IsSpace(s[i])
        /\ \A i \in (Len(s) - b + 1)..Len(s) : IsSpace(s[i])
        /\ t # <<>> => ~IsSpace(t[1]) /\ ~IsSpace(t[Len(t)])

\* C1: with two threads calling query, at most one of them is between its
\* serial write and the matching serial read.
C1_SingleInFlight == Cardinality({t \in Threads : InFlight(t)}) <= 1

\* C2: for a single caller the port is open if and only if the acquisition
\* count _context_depth is greater than 0.
C2_OpenIffAcquired == is_open <=> _context_depth > 0

\* C3: scoped acquisition nests: a scope entry opens the port only when the
\* count goes from 0 to 1, a scope exit closes it only when the count comes
\* back to 0, no other operation leaves the port newly open, and of two
\* nested scopes the first exit leaves the port open and the second closes it.
C3_ScopeNesting ==
    /\ (call.op = "__enter__" /\ is_open /\ ~call.open0)
           => (call.depth0 = 0 /\ _context_depth = 1)
    /\ (call.op = "__exit__" /\ call.open0 /\ ~is_open) => _context_depth = 0
    /\ (call.op = "__exit__" /\ call.open0 /\ call.depth0 = 2) => is_open
    /\ (call.op = "__exit__" /\ call.depth0 = 1) => ~is_open
    /\ (call.op # "none" /\ is_open /\ ~call.open0) => call.op = "__enter__"

\* C3 witness: two scopes were entered and the inner one has exited, the
\* port still open
C3_Witness ==
    /\ call.op = "__exit__" /\ call.depth0 = 2 /\ call.open0
    /\ blocks = 1 /\ is_open /\ _context_depth = 1

\* C4: once the outermost scope has exited after an exception was raised
\* inside a scope, the port is closed and the acquisition count is 0.
C4_ReleasedAfterException ==
    (blocks = 0 /\ raisedInScope) => (~is_open /\ _context_depth = 0)

\* C5: an exception raised inside a scope does not leave the scope, and
\* after the scope has exited has_connection_error() is true.
C5_ExceptionMarksFault ==
    (call.op = "__exit__" /\ call.arg # NoExc)
        => (pending = NoExc /\ has_connection_error)

\* C6: query, command and is_referenced called while the acquisition count
\* is 0 raise the usage error and write nothing; whatever they write, they
\* write while the count is greater than 0.
C6_NoWriteOutsideScope ==
    call.op \in QueryOps =>
        /\ call.depth0 = 0 => (call.exc = "RuntimeError" /\ call.sent = <<>>)
        /\ call.sent # <<>> => call.depth0 > 0

\* C6 witness: command was called outside every scope and refused
C6_Witness ==
    /\ call.op = "command" /\ call.depth0 = 0 /\ blocks = 0
    /\ call.exc = "RuntimeError" /\ call.sent = <<>>

\* C7 as stated: while the connection is marked faulted every query fails
\* with a connection error and nothing is written or read.
C7_FaultedQueryConnectionError ==
    (call.op \in QueryOps /\ call.fault0)
        => (call.exc = "ConnectionError" /\ call.sent = <<>> /\ call.reads = 0)

\* C7 amended: while the connection is marked faulted every query fails at
\* once, with the usage error when the acquisition count is 0 and with a
\* connection error otherwise, and nothing is written or read.
C7_FaultedQueryFails ==
    (call.op \in QueryOps /\ call.fault0)
        => /\ call.exc = IF call.depth0 = 0 THEN "RuntimeError" ELSE "ConnectionError"
           /\ call.sent = <<>>
           /\ call.reads = 0

\* C7 witness: a query made while faulted failed with the connection error
C7_Witness ==
    call.op = "query" /\ call.fault0 /\ call.exc = "ConnectionError"

C9_CommandResult ==
    (call.op = "command" /\ call.reads = 1 /\ call.rd # <<>>)
        => /\ call.exc = NoExc
           /\ call.ret = "False" <=> ReplyEndsWith(call.rd, "?")
           /\ call.ret = "True" <=> ~ReplyEndsWith(call.rd, "?")

\* C10: is_referenced returns true if and only if the reply, as query
\* returns it, ends in '1' and the reference-changed flag is not set; a
\* reply ending in '0' yields false.
C10_IsReferenced ==
    call.op = "is_referenced" =>
        /\ call.ret = "True"
               <=> (call.reads = 1 /\ ReplyEndsWith(call.rd, "1") /\ ~_reference_changed)
        /\ (call.reads = 1 /\ ReplyEndsWith(call.rd, "0")) => call.ret = "False"

\* C10 witness: is_referenced returned true
C10_Witness ==
    /\ call.op = "is_referenced" /\ call.ret = "True"
    /\ ReplyEndsWith(call.rd, "1") /\ ~_reference_changed

(* ------------- a stop while the worker polls the status ----------------- *)
(* The worker thread is inside `with self.ls_ctl:` in wait_movement and     *)
(* goes on polling; between two polls it sleeps in "body".  The GUI thread  *)
(* runs `with self.ls_ctl: self.ls_ctl.stop()`.  The GUI thread spins on    *)
(* the guard all through the 0.1 s the worker sleeps, so it passes the      *)
(* test whenever the guard is free again and again: strong fairness.        *)

InitPoll ==
    /\ port_set = TRUE
    /\ is_open = TRUE
    /\ _connection_error = FALSE
    /\ _context_depth = 1
    /\ _is_querying = FALSE
    /\ _reference_changed \in BOOLEAN
    /\ _status \in {0, 1}
    /\ _positioning_error = 0
    /\ _reference_point \in ReferencePoints
    /\ InitRun
    /\ blocks = 0
    /\ pending = NoExc
    /\ raisedInScope = FALSE
    /\ call = NoCall
    /\ pc = [t \in Threads |-> IF t = "worker" THEN "body" ELSE "idle"]
    /\ tmp = [t \in Threads |-> 0]
    /\ texc = [t \in Threads |-> NoExc]
    /\ sig = "none"

\* one poll of the worker: the controller answers the status query
WorkerPolls ==
    \/ T_QueryContext("worker")
    \/ T_GuardTest("worker")
    \/ T_GuardSet("worker")
    \/ T_QueryWrite("worker")
    \/ \E rd \in Reads : rd # <<>> /\ T_QueryRead("worker", rd)
    \/ T_GuardRelease("worker")

\* the steps of the GUI thread other than the test of the guard
GuiRuns ==
    \/ T_EnterTest("gui")
    \/ T_EnterLoad("gui")
    \/ T_EnterStore("gui")
    \/ T_QueryContext("gui")
    \/ T_GuardSet("gui")
    \/ T_QueryWrite("gui")
    \/ \E rd \in Reads : T_QueryRead("gui", rd)
    \/ T_GuardRelease("gui")
    \/ T_ExitLoad("gui")
    \/ T_ExitStore("gui")
    \/ T_ExitClose("gui")

NextPoll ==
    \/ T_QueryContext("worker")
    \/ T_GuardTest("worker")
    \/ T_GuardSet("worker")
    \/ T_QueryWrite("worker")
    \/ \E rd \in Reads : rd # <<>> /\ T_QueryRead("worker", rd)
    \/ T_GuardRelease("worker")
    \/ T_EnterTest("gui")
    \/ T_EnterLoad("gui")
    \/ T_EnterStore("gui")
    \/ T_QueryContext("gui")
    \/ T_GuardTest("gui")
    \/ T_GuardSet("gui")
    \/ T_QueryWrite("gui")
    \/ \E rd \in Reads : T_QueryRead("gui", rd)
    \/ T_GuardRelease("gui")
    \/ T_ExitLoad("gui")
    \/ T_ExitStore("gui")
    \/ T_ExitClose("gui")

SpecPoll ==
    /\ InitPoll
    /\ [][NextPoll]_vars
    /\ WF_vars(WorkerPolls)
    /\ WF_vars(GuiRuns)
    /\ SF_vars(T_GuardTest("gui"))

(* ------------------ SIGINT / SIGTERM: sig_handler ----------------------- *)
(* Python runs the handler in the main thread, between two of its           *)
(* instructions; the main thread goes on only when the handler has          *)
(* returned.  The handler calls stop(), i.e. command('#1S'), i.e. query.    *)
(* An exception that leaves the handler unwinds the main thread; that is    *)
(* not followed further ("raised").                                         *)

Handle(l) == sig' = l /\ UNCHANGED <<pc, tmp, texc>>

\* the signal arrives
H_Signal ==
    /\ sig = "none"
    /\ Handle("h_ctx")
    /\ UNCHANGED <<objVars, devVars, seqVars>>

\* stop() reaches query: error_outside_context
H_Context ==
    /\ sig = "h_ctx"
    /\ Handle(IF error_outside_context(_context_depth) THEN "raised" ELSE "h_wait")
    /\ UNCHANGED <<objVars, devVars, seqVars>>

\* atomic_section: `while args[0]._is_querying: pass` finds the flag clear
H_GuardTest ==
    /\ sig = "h_wait"
    /\ ~_is_querying
    /\ Handle("h_set")
    /\ UNCHANGED <<objVars, devVars, seqVars>>

\* atomic_section: args[0]._is_querying = True
H_GuardSet ==
    /\ sig = "h_set"
    /\ _is_querying' = TRUE
    /\ Handle("h_write")
    /\ UNCHANGED <<port_set, is_open, _connection_error, _context_depth, devVars,
                   seqVars>>

\* query: the test of the fault flag and the write of '#1S'
H_Write ==
    /\ sig = "h_write"
    /\ Handle(IF _connection_error \/ ~is_open THEN "h_exc" ELSE "h_read")
    /\ UNCHANGED <<objVars, devVars, seqVars>>

\* query and command: the read of the reply and the test of it
H_Read ==
    /\ sig = "h_read"
    /\ \E rd \in CommandReplies : Handle(IF rd = <<>> THEN "h_exc" ELSE "h_fin")
    /\ UNCHANGED <<objVars, devVars, seqVars>>

\* atomic_section: `finally`, then the handler returns or raises
H_Release ==
    /\ sig \in {"h_fin", "h_exc"}
    /\ _is_querying' = GuardAfterQuery
    /\ Handle(IF sig = "h_fin" THEN "none" ELSE "raised")
    /\ UNCHANGED <<port_set, is_open, _connection_error, _context_depth, devVars,
                   seqVars>>

\* the main thread runs while no handler is active
MainRuns == sig = "none"

NextSignal ==
    \/ MainRuns /\ T_EnterTest("gui")
    \/ MainRuns /\ \E o \in OpenOutcomes : T_EnterOpen("gui", o)
    \/ MainRuns /\ T_EnterLoad("gui")
    \/ MainRuns /\ T_EnterStore("gui")
    \/ MainRuns /\ T_QueryContext("gui")
    \/ MainRuns /\ T_GuardTest("gui")
    \/ MainRuns /\ T_GuardSet("gui")
    \/ MainRuns /\ T_QueryWrite("gui")
    \/ MainRuns /\ \E rd \in Reads : T_QueryRead("gui", rd)
    \/ MainRuns /\ T_GuardRelease("gui")
    \/ MainRuns /\ T_ExitLoad("gui")
    \/ MainRuns /\ T_ExitStore("gui")
    \/ MainRuns /\ T_ExitClose("gui")
    \/ H_Signal
    \/ H_Context
    \/ H_GuardTest
    \/ H_GuardSet
    \/ H_Write
    \/ H_Read
    \/ H_Release

SpecSignal == InitThreads /\ [][NextSignal]_vars /\ WF_vars(NextSignal)

(* ------------------- status word and positioning error ------------------ *)

\* bit 2 of the stored status
StoredErrorBit == (_status \div 4) % 2

\* the operation was called inside a scope, with no fault and the port open
CalledHealthy == call.depth0 > 0 /\ ~call.fault0 /\ call.open0

\* the operation wrote the command m
Wrote(m) == \E i \in 1..Len(call.sent) : call.sent[i] = <<m, CR>>

\* the commands ms, each with its terminator
Wire(ms) == [i \in 1..Len(ms) |-> <<ms[i], CR>>]

\* s is the beginning of t
IsPrefix(s, t) == Len(s) <= Len(t) /\ s = SubSeq(t, 1, Len(s))

\* C11, as stated: in every reachable state the stored positioning-error
\* flag equals bit 2 of the stored status; no operation changes the flag
\* without the status.
C11_FlagIsStatusBit == _positioning_error = StoredErrorBit

\* C11, amended: the flag is set only while bit 2 of the stored status is
\* set and equals that bit after every fetch_status that decodes a reply;
\* clear_positioning_error sets the flag to 0 and leaves the stored status.
C11_FlagFollowsFetch ==
    /\ _positioning_error \in {0, 1}
    /\ _positioning_error = 1 => StoredErrorBit = 1
    /\ (call.op = "fetch_status" /\ call.ret # "None")
           => (call.ret = ToString(_status) /\ _positioning_error = StoredErrorBit)
    /\ call.op = "clear_positioning_error" => _positioning_error = 0

\* clear_positioning_error has run on a stored status whose bit 2 is set
C11_Witness ==
    call.op = "clear_positioning_error" /\ StoredErrorBit = 1 /\ _positioning_error = 0

\* C12: when the reply to '#1$' ends in '?', is_control_ready,
\* has_positioning_error and wait_movement take the status as unavailable
\* and raise nothing.
C12_UnavailableStatusHandled ==
    (/\ call.op \in {"is_control_ready", "has_positioning_error", "wait_movement"}
     /\ call.reads > 0
     /\ ReplyEndsWith(call.rd, "?"))
        => call.exc = NoExc

(* ------------------------------ referencing ----------------------------- *)

\* C13: set_reference_point writes nothing; from then until a do_referencing
\* returns, is_referenced is false and move_absolute writes no motion
\* command, whatever the controller replies.
C13_InvalidatedUntilReferenced ==
    /\ call.op = "set_reference_point" => (call.sent = <<>> /\ call.reads = 0)
    /\ invalidated => _reference_changed
    /\ (invalidated /\ call.op = "is_referenced") => call.ret # "True"
    /\ (invalidated /\ call.op = "move_absolute")
           => (call.sent \in {<<>>, Wire(<<"#1:is_referenced">>)} /\ ~Wrote("#1A"))

\* after set_reference_point the controller reports itself referenced and
\* move_absolute gives the move up
C13_Witness ==
    /\ invalidated
    /\ call.op = "move_absolute"
    /\ call.reads = 1
    /\ ReplyEndsWith(call.rd, "1")
    /\ call.log = "not referenced"

\* C14: do_referencing writes reference mode, the limit-switch behaviour,
\* the direction of the reference side, the seek speed and start, in that
\* order; the reference is not marked valid while the referencing run is
\* still going on (no ready status fetched yet).
C14_ReferencingCompletes ==
    /\ (call.op = "do_referencing" /\ call.exc = NoExc)
           => call.sent = Wire(<<"#1p4", "#1l5154",
                                 IF call.arg = "near" THEN "#1d1" ELSE "#1d0",
                                 "#1o4000", "#1A">>)
    /\ referencing => _reference_changed

(* ------------------------------- moves ---------------------------------- *)

\* C15: move_absolute on a stage that is not referenced fails with the
\* not-referenced error and writes no mode, speed, target or start command.
C15_UnreferencedMoveFails ==
    (call.op = "move_absolute" /\ call.log = "not referenced")
        => /\ call.exc = "MotorNotReferencedError"
           /\ call.sent = Wire(<<"#1:is_referenced">>)

\* C16: move_absolute with abs(target) > 50000 fails with an out-of-range
\* error and writes nothing.
C16_OutOfRangeMoveFails ==
    (call.op = "move_absolute" /\ Abs(call.steps) > MaxSteps /\ CalledHealthy)
        => (call.exc # NoExc /\ call.sent = <<>>)

\* C17: no move writes a target, a distance or a speed outside the limits:
\* absolute targets lie in 0..50000, relative distances within 50000 steps,
\* speeds at or below 16000.
C17_MotionWithinLimits ==
    /\ (call.op = "move_absolute" /\ Len(call.sent) >= 4)
           => call.steps \in 0..MaxSteps
    /\ (call.op = "move_relative" /\ Len(call.sent) >= 4)
           => Abs(call.steps) <= MaxSteps
    /\ (call.op \in {"move_absolute", "move_relative"} /\ Len(call.sent) >= 3)
           => call.speed <= MaxSpeed

\* C18: a move_absolute in range on a referenced stage writes target - 50000
\* when the reference is not 'far' and the target itself when it is, in the
\* order mode '#1p2', speed, target, start.
C18_AbsoluteTarget ==
    (call.op = "move_absolute" /\ call.log = "" /\ Abs(call.steps) <= MaxSteps)
        => LET raw == IF call.arg = "far" THEN call.steps ELSE call.steps - MaxSteps
               all == Wire(<<"#1:is_referenced", "#1p2", "#1o" \o ToString(call.speed),
                             "#1s" \o ToString(raw), "#1A">>)
           IN  /\ IsPrefix(call.sent, all)
               /\ call.exc = NoExc => call.sent = all

\* a move to target 0 with the reference near the motor went through
C18_Witness ==
    /\ call.op = "move_absolute"
    /\ call.exc = NoExc
    /\ call.arg = "near"
    /\ call.steps = 0
    /\ Wrote("#1s-50000")
    /\ Wrote("#1A")

\* C19, as stated: move_relative within 50000 steps writes a direction that
\* depends on the sign of the distance and on the reference side, then
\* '#1p1', the speed, the magnitude of the distance and start; beyond 50000
\* steps it writes nothing.
C19_RelativeBySignAndMagnitude ==
    call.op = "move_relative"
        => IF Abs(call.steps) > MaxSteps THEN call.sent = <<>>
           ELSE call.exc = NoExc
                    => call.sent =
                           Wire(<<IF (call.arg = "far") # (call.steps < 0)
                                  THEN "#1d1" ELSE "#1d0",
                                  "#1p1", "#1o" \o ToString(call.speed),
                                  "#1s" \o ToString(Abs(call.steps)), "#1A">>)

\* C19, amended: the direction depends on the reference side alone ('#1d1'
\* for 'far', '#1d0' otherwise) and the distance is written with its sign;
\* the order is direction, '#1p1', speed, distance, start, and beyond 50000
\* steps nothing is written.
C19_RelativeBySide ==
    call.op = "move_relative"
        => IF Abs(call.steps) > MaxSteps THEN call.sent = <<>> /\ call.exc = NoExc
           ELSE LET all == Wire(<<IF call.arg = "far" THEN "#1d1" ELSE "#1d0",
                                  "#1p1", "#1o" \o ToString(call.speed),
                                  "#1s" \o ToString(call.steps), "#1A">>)
                IN  /\ IsPrefix(call.sent, all)
                    /\ call.exc = NoExc => call.sent = all

\* a move towards the reference went through
C19_Witness ==
    /\ call.op = "move_relative"
    /\ call.exc = NoExc
    /\ call.steps < 0
    /\ Wrote("#1s-1")
    /\ Wrote("#1A")

\* C20: stop and stop_soft write '#1S' and '#1S1' in every state they are
\* called in, inside a scope or not.
C20_StopAlwaysWrites ==
    /\ call.op = "stop" => call.sent = Wire(<<"#1S">>)
    /\ call.op = "stop_soft" => call.sent = Wire(<<"#1S1">>)

(* ---------------------------- wait_movement ----------------------------- *)

\* the ready bit and the positioning-error bit of a status
ReadyBit(status) == status % 2
ErrorBit(status) == (status \div 4) % 2

\* wait_movement has returned; call.rets holds the statuses its loop saw
WaitReturned == call.op = "wait_movement" /\ call.exc = NoExc

\* C21, as stated: wait_movement makes exactly as many status fetches as it
\* takes to see the ready bit for the first time (three for not ready, not
\* ready, ready).
C21_FetchesUntilReady == WaitReturned => call.reads = Len(call.rets)

\* C21, amended: the loop of wait_movement makes exactly as many status
\* fetches as it takes to see the ready bit or the positioning-error bit
\* for the first time, and has_positioning_error then makes one more: three
\* fetches in the loop and a fourth after it for not ready, not ready, ready.
C21_OneFetchAfterLoop ==
    WaitReturned
        => LET n == Len(call.rets)
           IN  /\ n >= 1
               /\ call.reads = n + 1
               /\ call.sent = [i \in 1..(n + 1) |-> <<"#1$", CR>>]
               /\ ReadyBit(call.rets[n]) = 1 \/ ErrorBit(call.rets[n]) = 1
               /\ \A i \in 1..(n - 1) :
                      ReadyBit(call.rets[i]) = 0 /\ ErrorBit(call.rets[i]) = 0

\* wait_movement has returned after not ready, not ready, ready
C21_Witness == WaitReturned /\ call.rets = <<0, 0, 1>> /\ call.reads = 4

\* C22: when the positioning-error bit ends the loop of wait_movement,
\* wait_movement clears the error with exactly one '#1D...' command and
\* returns without raising.
C22_ErrorClearedOnce ==
    (/\ WaitReturned
     /\ call.rets # <<>>
     /\ ErrorBit(call.rets[Len(call.rets)]) = 1)
        => /\ Cardinality({i \in 1..Len(call.sent) :
                               call.sent[i][1] \notin {"#1$", "#1C"}}) = 1
           /\ _positioning_error = 0

(* --------------------------- reset_connection --------------------------- *)

\* C25: reset_connection returns False and leaves the connection marked
\* faulted whenever its probe fails; call.arg is the exception the probe
\* ended with.
C25_FailedProbeReported ==
    (call.op = "reset_connection" /\ call.exc = NoExc /\ call.arg \notin {"", NoExc})
        => (call.ret = "False" /\ _connection_error)

\* C26: from every faulted state with no scope active, reset_connection
\* runs, and when the controller answers the probe it returns True with the
\* fault flag cleared.
C26_ResetRecovers ==
    (call.op = "reset_connection" /\ call.fault0 /\ blocks = 0)
        => /\ call.exc = NoExc
           /\ (call.reads = 1 /\ Terminated(call.rd))
                  => (call.ret = "True" /\ ~_connection_error)

(* ----------------------- multi-command operations ----------------------- *)

\* how many commands the operation writes when nothing goes wrong, the
\* reference query of move_absolute not counted
Commands(op) ==
    CASE op \in {"do_referencing", "move_relative"} -> 5
      [] op \in {"move_absolute", "move_inf_start", "set_soft_ramp"} -> 4
      [] OTHER -> 0

\* commands of the operation that were written, the reference query of
\* move_absolute not counted
Written == IF call.op = "move_absolute" /\ call.reads > 0 THEN call.reads - 1
           ELSE call.reads

\* C28: a transport failure during one command of a multi-command operation
\* ends the operation and reaches the caller as an exception.
C28_TransportFailureSurfaces ==
    /\ (call.op = "set_soft_ramp" /\ call.arg \in {"TimeoutError", "ConnectionError"})
           => call.exc = call.arg
    /\ (/\ call.op \in {"do_referencing", "move_relative", "move_absolute",
                        "move_inf_start"}
        /\ Written > Len(call.rets))
           => (call.exc = "TimeoutError" /\ Len(call.sent) = call.reads)
    /\ (call.op = "clear_positioning_error" /\ call.reads = 1 /\ call.rd = <<>>)
           => (call.exc = "TimeoutError" /\ Len(call.sent) = 1)

\* C29: the start command '#1A' is written only when every command before
\* it in the same operation was accepted.
C29_StartAfterAccepted ==
    (/\ call.op \in {"do_referencing", "move_relative", "move_absolute",
                     "move_inf_start"}
     /\ Wrote("#1A"))
        => \A i \in 1..Len(call.rets) : i < Commands(call.op) => call.rets[i] = "True"

\* C23: wait_movement goes on polling only while the ready bit and the
\* positioning-error bit are both clear, and once it is in its loop it
\* comes to an end when the controller reports one of the two bits.
C23_WaitTerminates ==
    /\ [](/\ \A i \in 1..(Len(wait.seen) - 1) :
                 ReadyBit(wait.seen[i]) = 0 /\ ErrorBit(wait.seen[i]) = 0
          /\ call.op = "wait_movement"
                 => \A i \in 1..(Len(call.rets) - 1) :
                        ReadyBit(call.rets[i]) = 0 /\ ErrorBit(call.rets[i]) = 0)
    /\ (wait.pc = "loop") ~> (wait.pc = "idle")

\* wait_movement has returned after a poll that found the positioning-error
\* bit without the ready bit
C23_Witness ==
    /\ WaitReturned
    /\ Len(call.rets) >= 2
    /\ ErrorBit(call.rets[Len(call.rets)]) = 1
    /\ ReadyBit(call.rets[Len(call.rets)]) = 0

(* ------------------------- threads and signals -------------------------- *)

\* the thread is inside query, between taking and releasing the guard
HoldsGuard(t) == pc[t] \in {"q_write", "q_read", "q_fin"}

\* C24: while the worker polls, the guard is free whenever the worker
\* sleeps between two polls (unless the GUI thread holds it), and a stop
\* that waits for the guard is written to the wire in the end.
C24_StopNotStarved ==
    /\ []((pc["worker"] = "body" /\ ~HoldsGuard("gui")) => ~_is_querying)
    /\ (pc["gui"] = "q_wait") ~> (pc["gui"] = "q_read")

\* the stop of the GUI thread is on the wire and the worker's next poll
\* waits for the guard
C24_Witness == pc["gui"] = "q_read" /\ pc["worker"] = "q_wait" /\ _is_querying

\* C27: the handler never waits for the guard while the thread it has
\* interrupted holds it; that thread cannot release the guard before the
\* handler returns, so the wait would never end.
C27_HandlerGetsGuard == ~(sig = "h_wait" /\ _is_querying /\ HoldsGuard("gui"))

(* ----------------------------- conversions ------------------------------ *)

\* C30: for steps in 0..50000 and substeps in {1, 2, 4, 8, 16},
\* mm_to_steps(steps_to_mm(steps)) is steps again, whichever way the
\* floating-point operations round.
C30_RoundTrip == call.op = "mm_to_steps" => call.rets = <<call.steps>>

\* the largest step count at the finest microstepping comes back although
\* the millimetre value was rounded
C30_Witness ==
    /\ call.op = "mm_to_steps"
    /\ call.arg = "16"
    /\ call.steps = MaxSteps
    /\ call.speed # 0
    /\ call.rets = <<MaxSteps>>

(* ------------------- acquisition count and reset ------------------------ *)

\* C34: the acquisition count is never negative and is 0 whenever no `with`
\* block is open, so every completed block has left it as it found it.
C34_CountBalanced == _context_depth >= 0 /\ (blocks = 0 => _context_depth = 0)

\* C38: a do_referencing in which the controller rejected a command leaves
\* the reference invalid when it was invalid before.
C38_RejectedReferencingKeepsFlag ==
    (call.op = "do_referencing" /\ call.changed0
     /\ \E i \in 1..Len(call.rets) : call.rets[i] = "False")
        => _reference_changed

\* C39: reset_connection called with the acquisition count not 0 raises the
\* usage error, writes and reads nothing and leaves the fault flag, the
\* acquisition count and the port's open state as they were.
C39_ResetInScopeRefused ==
    (call.op = "reset_connection" /\ call.depth0 # 0)
        => /\ call.exc = "RuntimeError"
           /\ call.sent = <<>> /\ call.reads = 0
           /\ _context_depth = call.depth0
           /\ _connection_error = call.fault0
           /\ is_open = call.open0

\* reset_connection is called inside an open scope with the port open
C39_Witness ==
    /\ call.op = "reset_connection"
    /\ call.depth0 = 1 /\ blocks = 1 /\ call.open0
    /\ call.exc = "RuntimeError"

(* ------------------------------ position -------------------------------- *)

\* C32: when the controller reports the raw position an absolute move to a
\* target in 0..50000 has taken it to, get_position returns that target, on
\* either reference side.
C32_PositionInvertsMove ==
    (/\ call.op = "get_position"
     /\ call.exc = NoExc
     /\ call.rd = PositionReply(raw_target(call.steps, call.arg)))
        => call.rets = <<call.steps>>

\* on the near side a move to 105 ends at raw -49895 and reads back as 105
C32_Witness ==
    /\ call.op = "get_position"
    /\ call.arg = "near"
    /\ call.steps = 105
    /\ call.rd = PositionReply(105 - MaxSteps)
    /\ call.rets = <<105>>

\* C33: clear_positioning_error sets the error flag to 0; with
\* reset_position true it writes '#1D0' and nothing before it, with
\* reset_position false it writes '#1C' and then '#1D' with the position the
\* controller has reported.
C33_ClearWritesPosition ==
    call.op = "clear_positioning_error"
        => /\ _positioning_error = 0
           /\ (call.arg = "True" /\ call.reads > 0)
                  => (call.sent = Wire(<<"#1D0">>) /\ call.reads = 1)
           /\ \A p \in RawPositions :
                  (call.arg = "False" /\ call.rd = PositionReply(p))
                      => /\ call.reads = 2
                         /\ call.sent = Wire(<<"#1C", "#1D" \o ToString(p)>>)

\* the position -50000 is read and written back
C33_Witness ==
    /\ call.op = "clear_positioning_error"
    /\ call.arg = "False"
    /\ call.rd = PositionReply(-MaxSteps)
    /\ call.exc = NoExc
    /\ Wrote("#1D-50000")

\* C31: mm_to_steps returns mm * substeps * 200 / 1.25 rounded to the nearest
\* integer, ties to even, as exact arithmetic on the value of mm gives it.
C31_ExactHalfEven == call.op = "mm_to_steps(mm)" => call.rets = <<call.steps>>

(* --------------------- two threads and the port ------------------------- *)

\* the thread is inside the body of its `with` block
InBody(t) == pc[t] \in {"body", "q_wait", "q_set", "q_write", "q_read", "q_fin"}

\* C35: with no fault, the port is open while a thread is inside the body of
\* its scope, so no query meets a closed port, and the port is closed when
\* no thread is inside __enter__, a scope or __exit__.
C35_ScopesShareThePort ==
    /\ \A t \in Threads : (InBody(t) /\ ~_connection_error) => is_open
    /\ (\A t \in Threads : pc[t] = "idle") => ~is_open

\* C36: the guard flag is set only while some thread is between taking and
\* releasing it, whatever exception its query ended with.
C36_GuardReleased == _is_querying => \E t \in Threads : HoldsGuard(t)

\* a query has ended with a timeout, the thread is on its way out of the
\* scope and the flag is clear
C36_Witness ==
    /\ pc["gui"] = "x_load"
    /\ texc["gui"] = "TimeoutError"
    /\ pc["worker"] = "idle"
    /\ ~_is_querying

(* ---------------- positioning error and the reference ------------------- *)

\* C37: when wait_movement returns with the positioning-error bit of the
\* last fetched status set, the reference-changed flag is set; only
\* do_referencing clears the flag, and while it is set is_referenced does
\* not return True and move_absolute writes nothing but its
\* '#1:is_referenced' query, whatever the controller replies.
C37_ErrorInvalidatesReference ==
    /\ (call.op = "wait_movement" /\ call.exc = NoExc /\ _positioning_error # 0)
           => _reference_changed
    /\ (call.changed0 /\ ~_reference_changed) => call.op = "do_referencing"
    /\ (call.op = "is_referenced" /\ call.changed0)
           => (call.ret # "True" /\ (call.exc = NoExc => call.ret = "False"))
    /\ (call.op = "move_absolute" /\ call.changed0)
           => /\ call.sent \in {<<>>, Wire(<<"#1:is_referenced">>)}
              /\ call.rets = <<>>
              /\ (call.exc = NoExc /\ call.reads = 1) => call.log = "not referenced"

\* the reference point was never changed, a wait_movement has met the
\* positioning error, the controller still reports itself referenced and
\* move_absolute gives the move up
C37_Witness ==
    /\ ~invalidated
    /\ call.op = "move_absolute"
    /\ call.changed0
    /\ _positioning_error # 0
    /\ call.reads = 1
    /\ ReplyEndsWith(call.rd, "1")
    /\ call.steps = 0
    /\ call.log = "not referenced"

====
